---- MODULE Spec2Model ----
(***************************************************************************)
(* Model of etl loader load_oath.py: main() pages a CSV endpoint with      *)
(* fetch_page (retry + backoff + 406 fallback), stages the pages into one  *)
(* local file with build_local_csv, and bulk-loads the file with           *)
(* copy_into_postgres.                                                     *)
(*                                                                         *)
(* A text (response body, chunk) is a header line followed by `rows` more  *)
(* lines, with or without a final newline: [present, hdr, rows, nl].       *)
(*   present = FALSE        the empty string ""                            *)
(*   hdr                    number of csv fields of line 0 (0: empty line) *)
(*   rows                   number of lines after line 0                   *)
(*   nl                     the text ends with "\n"                        *)
(* Row counts keep the program's real sizes (PAGE_LIMIT, TOTAL_TARGET).    *)
(***************************************************************************)
EXTENDS Integers, Sequences, FiniteSets, TLC

\* ---- program constants ----
PAGE_LIMIT == 10000
TOTAL_TARGET == 50000
NumFields == 6
MaxAttempts == 6
InitialBackoff == 2
NOT_ACCEPTABLE == 406

\* ---- bound of the environment: how far row and column counts stray ----
MaxSlack == 1

VARIABLES
    pc,              \* position of the single thread of control
    outcome,         \* "running", "ok", or the exception that ended the run
    rows_written,    \* build_local_csv local
    offset,          \* build_local_csv local
    header_written,  \* build_local_csv local
    chunk,           \* build_local_csv local: last value returned by fetch_page
    file,            \* staging file: header lines written, data lines written
    attempt,         \* fetch_page loop variable
    backoff,         \* fetch_page local
    r,               \* fetch_page local: the response object
    reqs,            \* history: requests issued in the current attempt
    sleeps,          \* history: time.sleep arguments of the current fetch_page call
    exc,             \* fetch_page: kind of the exception in flight, or "none"
    fails,           \* history: exceptions raised in the current fetch_page call, by kind
    calls,           \* history: offsets of the fetch_page calls of the run
    pages,           \* history: values returned by the fetch_page calls of the run
    db,              \* database session: pending and committed effects
    dbEvents         \* history: database operations attempted

vars == <<pc, outcome, rows_written, offset, header_written, chunk, file,
          attempt, backoff, r, reqs, sleeps, exc, fails, calls, pages, db, dbEvents>>

buildVars == <<rows_written, offset, header_written, chunk, file>>
fetchVars == <<attempt, backoff, r, reqs, sleeps, exc, fails>>

NoFails == [net |-> 0, http |-> 0]

Raised(f, kind) == [f EXCEPT ![kind] = f[kind] + 1]
dbVars == <<db, dbEvents>>

\* ---- texts ----
EmptyText == [present |-> FALSE, hdr |-> 0, rows |-> 0, nl |-> FALSE]

RowChoices == (0 .. MaxSlack) \cup ((PAGE_LIMIT - MaxSlack) .. (PAGE_LIMIT + MaxSlack))

HdrChoices == {0, NumFields - 1, NumFields, NumFields + 1}

\* every text of the shape above; hdr = 0, rows = 0, nl = FALSE would be ""
Texts ==
    {EmptyText} \cup
    {t \in [present : {TRUE}, hdr : HdrChoices, rows : RowChoices, nl : BOOLEAN] :
        ~(t.hdr = 0 /\ t.rows = 0 /\ ~t.nl)}

\* text.count("\n"): one newline after each line but the last, one more if nl
CountNewlines(t) ==
    IF ~t.present THEN 0 ELSE t.rows + (IF t.nl THEN 1 ELSE 0)

\* len(text.splitlines()): a final newline opens no further line
NumLines(t) ==
    IF ~t.present THEN 0 ELSE 1 + t.rows

NumDataLines_counts_header(t) == NumLines(t)

\* len(lines[1:]) if len(lines) > 1 else 0
NumDataLines(t) ==
    IF NumLines(t) > 1 THEN NumLines(t) - 1 ELSE 0

\* len(next(csv.reader([lines[0]])))
HeaderCols(t) == t.hdr

\* ---- responses ----
Statuses == {200, 404, NOT_ACCEPTABLE, 503}

NetworkFailure == [net |-> TRUE, status |-> 0, body |-> EmptyText]

Responses ==
    {NetworkFailure} \cup
    [net : {FALSE}, status : {200}, body : Texts] \cup
    [net : {FALSE}, status : Statuses \ {200}, body : {EmptyText}]

NoResponse == [net |-> FALSE, status |-> 0, body |-> EmptyText]

TEXT_CSV == "text/csv"
TEXT_PLAIN == "text/plain"

Request(off, accept, resp) ==
    [offset |-> off, limit |-> PAGE_LIMIT, accept |-> accept, resp |-> resp]

\* ---- decisions of fetch_page ----
NeedsFallback_any_error(status) == status >= 400

NeedsFallback(status) == status = NOT_ACCEPTABLE

\* r.raise_for_status() raises HTTPError
IsHttpError(status) == status >= 400 /\ status < 600

\* if not text or text.count("\n") < 1: return ""
PageResult(text) ==
    IF ~text.present \/ CountNewlines(text) < 1 THEN EmptyText ELSE text

\* what the run's history keeps of a value fetch_page returned
Returned(text) == [empty |-> ~text.present, rows |-> text.rows]

Caught_network_only(kind) == kind = "net"

\* except requests.exceptions.RequestException: HTTPError, ConnectionError
\* and Timeout are all subclasses of RequestException
Caught(kind) == kind \in {"net", "http"}

LastAttempt_early(a) == a = MaxAttempts - 2

LastAttempt(a) == a = MaxAttempts - 1

NextBackoff(b) == b * 2

\* ---- decisions of build_local_csv and main ----
KeepFetching(n) == n < TOTAL_TARGET

HeaderOk_at_least(cols) == cols >= NumFields

HeaderOk(cols) == cols = NumFields

ShortPage_never(n) == FALSE

ShortPage(n) == n < PAGE_LIMIT

NextOffset_by_rows(off, n) == off + n

NextOffset(off, n) == off + PAGE_LIMIT

NoData_never(n) == FALSE

NoData(n) == n = 0

\* ---- the run ----
Init ==
    /\ pc = "main"
    /\ outcome = "running"
    /\ rows_written = 0
    /\ offset = 0
    /\ header_written = FALSE
    /\ chunk = EmptyText
    /\ file = [hdrs |-> <<>>, data |-> 0]
    /\ attempt = 0
    /\ backoff = InitialBackoff
    /\ r = NoResponse
    /\ reqs = <<>>
    /\ sleeps = <<>>
    /\ exc = "none"
    /\ fails = NoFails
    /\ calls = <<>>
    /\ pages = <<>>
    /\ db = [connected |-> FALSE, pending |-> {}, committed |-> {}]
    /\ dbEvents = <<>>

\* main: call build_local_csv, which opens the staging file for writing
MainStart ==
    /\ pc = "main"
    /\ pc' = "while"
    /\ UNCHANGED <<outcome, buildVars, fetchVars, calls, pages, dbVars>>

\* while rows_written < TOTAL_TARGET: chunk = fetch_page(offset) ...
WhileTest ==
    /\ pc = "while"
    /\ IF KeepFetching(rows_written)
         THEN /\ pc' = "request"
              /\ calls' = Append(calls, offset)
              /\ attempt' = 0
              /\ backoff' = InitialBackoff
              /\ r' = NoResponse
              /\ reqs' = <<>>
              /\ sleeps' = <<>>
              /\ exc' = "none"
              /\ fails' = NoFails
         ELSE /\ pc' = "build_return"
              /\ UNCHANGED <<fetchVars, calls>>
    /\ UNCHANGED <<outcome, buildVars, pages, dbVars>>

\* r = requests.get(..., headers=HEADERS, ...); if r.status_code == 406
FirstRequest ==
    /\ pc = "request"
    /\ \E resp \in Responses :
         /\ reqs' = Append(reqs, Request(offset, TEXT_CSV, resp))
         /\ IF resp.net
              THEN /\ exc' = "net"
                   /\ fails' = Raised(fails, "net")
                   /\ pc' = "except"
                   /\ r' = r
              ELSE /\ r' = resp
                   /\ UNCHANGED <<exc, fails>>
                   /\ pc' = IF NeedsFallback(resp.status) THEN "fallback" ELSE "status"
    /\ UNCHANGED <<outcome, buildVars, attempt, backoff, sleeps, calls, pages, dbVars>>

\* r = requests.get(..., headers={"Accept": "text/plain"}, ...)
FallbackRequest ==
    /\ pc = "fallback"
    /\ \E resp \in Responses :
         /\ reqs' = Append(reqs, Request(offset, TEXT_PLAIN, resp))
         /\ IF resp.net
              THEN /\ exc' = "net"
                   /\ fails' = Raised(fails, "net")
                   /\ pc' = "except"
                   /\ r' = r
              ELSE /\ r' = resp
                   /\ UNCHANGED <<exc, fails>>
                   /\ pc' = "status"
    /\ UNCHANGED <<outcome, buildVars, attempt, backoff, sleeps, calls, pages, dbVars>>

\* r.raise_for_status(); text = r.text; return "" or text
StatusAndReturn ==
    /\ pc = "status"
    /\ IF IsHttpError(r.status)
         THEN /\ exc' = "http"
              /\ fails' = Raised(fails, "http")
              /\ pc' = "except"
              /\ UNCHANGED <<chunk, pages>>
         ELSE /\ chunk' = PageResult(r.body)
              /\ pages' = Append(pages, Returned(PageResult(r.body)))
              /\ pc' = "process"
              /\ UNCHANGED <<exc, fails>>
    /\ UNCHANGED <<outcome, rows_written, offset, header_written, file,
                   attempt, backoff, r, reqs, sleeps, calls, dbVars>>

\* except RequestException: if attempt == 5: raise; sleep(backoff); backoff *= 2
\* (the next attempt assigns r before reading it)
Except ==
    /\ pc = "except"
    /\ IF ~Caught(exc) \/ LastAttempt(attempt)
         THEN /\ pc' = "done"
              /\ outcome' = "RequestException"
              /\ UNCHANGED <<attempt, backoff, r, reqs, sleeps, exc>>
         ELSE /\ sleeps' = Append(sleeps, backoff)
              /\ exc' = "none"
              /\ backoff' = NextBackoff(backoff)
              /\ attempt' = attempt + 1
              /\ r' = NoResponse
              /\ reqs' = <<>>
              /\ pc' = "request"
              /\ outcome' = outcome
    /\ UNCHANGED <<buildVars, fails, calls, pages, dbVars>>

\* if not chunk: break; lines = chunk.splitlines(); header column check
\* (fetch_page has returned: its frame, and the history kept of it, are dropped)
CheckChunk ==
    /\ pc = "process"
    /\ IF ~chunk.present \/ NumLines(chunk) = 0
         THEN pc' = "build_return" /\ outcome' = outcome
         ELSE IF ~HeaderOk(HeaderCols(chunk))
                THEN pc' = "done" /\ outcome' = "RuntimeError"
                ELSE pc' = "write" /\ outcome' = outcome
    /\ attempt' = 0
    /\ backoff' = InitialBackoff
    /\ r' = NoResponse
    /\ reqs' = <<>>
    /\ sleeps' = <<>>
    /\ exc' = "none"
    /\ fails' = NoFails
    /\ UNCHANGED <<buildVars, calls, pages, dbVars>>

\* write the header once, then the data lines; no data lines: break
WriteChunk ==
    /\ pc = "write"
    /\ header_written' = TRUE
    /\ LET hdrs == IF header_written THEN file.hdrs
                   ELSE Append(file.hdrs, HeaderCols(chunk))
           n == NumDataLines(chunk)
       IN  IF n > 0
             THEN /\ file' = [hdrs |-> hdrs, data |-> file.data + n]
                  /\ rows_written' = rows_written + n
                  /\ pc' = "advance"
             ELSE /\ file' = [hdrs |-> hdrs, data |-> file.data]
                  /\ rows_written' = rows_written
                  /\ pc' = "build_return"
    /\ UNCHANGED <<outcome, offset, chunk, fetchVars, calls, pages, dbVars>>

\* offset += PAGE_LIMIT; if len(data_lines) < PAGE_LIMIT: break
Advance ==
    /\ pc = "advance"
    /\ offset' = NextOffset(offset, NumDataLines(chunk))
    /\ pc' = IF ShortPage(NumDataLines(chunk)) THEN "build_return" ELSE "while"
    /\ UNCHANGED <<outcome, rows_written, header_written, chunk, file,
                   fetchVars, calls, pages, dbVars>>

\* csv_path, n_rows = build_local_csv(); if n_rows == 0: raise SystemExit(1)
MainCheck ==
    /\ pc = "build_return"
    /\ IF NoData(rows_written)
         THEN pc' = "done" /\ outcome' = "SystemExit"
         ELSE pc' = "connect" /\ outcome' = outcome
    /\ UNCHANGED <<buildVars, fetchVars, calls, pages, dbVars>>

DbEvent(op, ok) == [op |-> op, ok |-> ok]

\* leaving `with psycopg2.connect(...) as conn` on an exception: rollback
Abort(d) == [d EXCEPT !.pending = {}]

CommitOf(d) == [d EXCEPT !.pending = {}, !.committed = d.committed \cup d.pending]

\* psycopg2.connect(PG_DSN)
Connect ==
    /\ pc = "connect"
    /\ \E ok \in BOOLEAN :
         /\ dbEvents' = Append(dbEvents, DbEvent("connect", ok))
         /\ IF ok
              THEN /\ db' = [db EXCEPT !.connected = TRUE]
                   /\ pc' = "create_table"
                   /\ outcome' = outcome
              ELSE /\ db' = db
                   /\ pc' = "done"
                   /\ outcome' = "DatabaseError"
    /\ UNCHANGED <<buildVars, fetchVars, calls, pages>>

\* ensure_table_exists: cur.execute(ddl)
CreateTable ==
    /\ pc = "create_table"
    /\ \E ok \in BOOLEAN :
         /\ dbEvents' = Append(dbEvents, DbEvent("create_table", ok))
         /\ IF ok
              THEN /\ db' = [db EXCEPT !.pending = db.pending \cup {"table"}]
                   /\ pc' = "table_commit"
                   /\ outcome' = outcome
              ELSE /\ db' = Abort(db)
                   /\ pc' = "done"
                   /\ outcome' = "DatabaseError"
    /\ UNCHANGED <<buildVars, fetchVars, calls, pages>>

\* ensure_table_exists: conn.commit()
TableCommit ==
    /\ pc = "table_commit"
    /\ \E ok \in BOOLEAN :
         /\ dbEvents' = Append(dbEvents, DbEvent("commit", ok))
         /\ IF ok
              THEN /\ db' = CommitOf(db)
                   /\ pc' = "copy"
                   /\ outcome' = outcome
              ELSE /\ db' = Abort(db)
                   /\ pc' = "done"
                   /\ outcome' = "DatabaseError"
    /\ UNCHANGED <<buildVars, fetchVars, calls, pages>>

CopyExpert_autocommit ==
    /\ pc = "copy"
    /\ \E ok \in BOOLEAN :
         /\ dbEvents' = Append(dbEvents, DbEvent("copy", ok))
         /\ IF ok
              THEN /\ db' = CommitOf([db EXCEPT !.pending = db.pending \cup {"rows"}])
                   /\ pc' = "commit"
                   /\ outcome' = outcome
              ELSE /\ db' = Abort(db)
                   /\ pc' = "done"
                   /\ outcome' = "DatabaseError"
    /\ UNCHANGED <<buildVars, fetchVars, calls, pages>>

\* cur.copy_expert(copy_sql, fh)
CopyExpert ==
    /\ pc = "copy"
    /\ \E ok \in BOOLEAN :
         /\ dbEvents' = Append(dbEvents, DbEvent("copy", ok))
         /\ IF ok
              THEN /\ db' = [db EXCEPT !.pending = db.pending \cup {"rows"}]
                   /\ pc' = "commit"
                   /\ outcome' = outcome
              ELSE /\ db' = Abort(db)
                   /\ pc' = "done"
                   /\ outcome' = "DatabaseError"
    /\ UNCHANGED <<buildVars, fetchVars, calls, pages>>

\* copy_into_postgres: conn.commit(), then main prints Done
FinalCommit ==
    /\ pc = "commit"
    /\ \E ok \in BOOLEAN :
         /\ dbEvents' = Append(dbEvents, DbEvent("commit", ok))
         /\ IF ok
              THEN /\ db' = CommitOf(db)
                   /\ pc' = "done"
                   /\ outcome' = "ok"
              ELSE /\ db' = Abort(db)
                   /\ pc' = "done"
                   /\ outcome' = "DatabaseError"
    /\ UNCHANGED <<buildVars, fetchVars, calls, pages>>

Next ==
    \/ MainStart
    \/ WhileTest
    \/ FirstRequest
    \/ FallbackRequest
    \/ StatusAndReturn
    \/ Except
    \/ CheckChunk
    \/ WriteChunk
    \/ Advance
    \/ MainCheck
    \/ Connect
    \/ CreateTable
    \/ TableCommit
    \/ CopyExpert
    \/ FinalCommit

Spec == Init /\ [][Next]_vars

\* process exit status: 0 only when main returns normally
ExitStatus == IF outcome = "ok" THEN 0 ELSE 1

\* ---- helpers of the properties ----
RECURSIVE SumRows(_)
SumRows(ps) ==
    IF ps = <<>> THEN 0 ELSE ps[1].rows + SumRows(Tail(ps))

Front(ps) == SubSeq(ps, 1, Len(ps) - 1)

InFetch == pc \in {"request", "fallback", "status", "except"}

FetchRaised == pc = "done" /\ outcome = "RequestException"

BuildReturned ==
    \/ pc \in {"build_return", "connect", "create_table", "table_commit", "copy", "commit"}
    \/ pc = "done" /\ outcome \in {"SystemExit", "ok", "DatabaseError"}

\* the last returned page is not yet (or never) written to the staging file
LastPagePending ==
    \/ pc \in {"process", "write"}
    \/ pc = "done" /\ outcome = "RuntimeError"

Written == IF LastPagePending THEN Front(pages) ELSE pages

TotalFails == fails.net + fails.http

ExpectedSleeps == <<2, 4, 8, 16, 32>>

DbOrder == <<"connect", "create_table", "commit", "copy", "commit">>

\* C1: the bulk-copy (and any database operation) is attempted only after
\* build_local_csv staged at least one data row; when build_local_csv returns
\* zero rows the run ends with SystemExit(1), and whenever a run ends with zero
\* rows staged its exit status is nonzero and no database operation was attempted.
C1_CopyOnlyAfterRows ==
    /\ dbEvents # <<>> => rows_written >= 1 /\ file.data >= 1
    /\ pc \in {"connect", "create_table", "table_commit", "copy", "commit"}
          => rows_written >= 1
    /\ (pc = "done" /\ rows_written = 0)
          => ExitStatus = 1 /\ dbEvents = <<>> /\ ~db.connected
    /\ (pc = "done" /\ BuildReturned /\ rows_written = 0) => outcome = "SystemExit"
    /\ outcome = "SystemExit" => rows_written = 0

C1_Witness ==
    /\ pc = "done"
    /\ outcome = "SystemExit"
    /\ Len(pages) = 1
    /\ ~pages[1].empty
    /\ header_written

\* C2 (as stated): when build_local_csv returns, rows_written equals the data
\* lines in the staging file and the sum of the data rows of the returned
\* pages, and the header was written exactly once.
C2_HeaderExactlyOnce ==
    pc = "build_return" =>
        /\ rows_written = file.data
        /\ rows_written = SumRows(pages)
        /\ Len(file.hdrs) = 1

\* C2 (amended): when build_local_csv returns, rows_written equals the data
\* lines in the staging file and the sum of the data rows of the returned
\* pages; the header is written at most once: exactly once when the first
\* fetch_page call returned a non-empty text, and not at all when it returned "".
C2_RowsAndHeader ==
    /\ rows_written = file.data
    /\ rows_written = SumRows(Written)
    /\ Len(file.hdrs) <= 1
    /\ header_written <=> Len(file.hdrs) = 1
    /\ BuildReturned =>
          /\ pages # <<>>
          /\ rows_written = SumRows(pages)
          /\ Len(file.hdrs) = (IF pages[1].empty THEN 0 ELSE 1)

C2_Witness ==
    /\ pc = "build_return"
    /\ Len(pages) >= 3
    /\ rows_written = SumRows(pages)
    /\ rows_written > 2 * PAGE_LIMIT
    /\ Len(file.hdrs) = 1

\* C3: fetch_page is called again only if every page returned so far had at
\* least PAGE_LIMIT data rows and their sum is below TOTAL_TARGET; a page with
\* fewer than PAGE_LIMIT data rows is the last one fetched.
C3_ShortPageIsLast ==
    /\ Len(pages) <= Len(calls)
    /\ Len(calls) <= Len(pages) + 1
    /\ \A k \in DOMAIN calls :
          k > 1 =>
             /\ \A j \in 1 .. (k - 1) : pages[j].rows >= PAGE_LIMIT
             /\ SumRows(SubSeq(pages, 1, k - 1)) < TOTAL_TARGET
    /\ \A j \in DOMAIN pages :
          pages[j].rows < PAGE_LIMIT => j = Len(calls)
    /\ InFetch => rows_written < TOTAL_TARGET

C3_Witness ==
    /\ pc = "build_return"
    /\ Len(pages) >= 2
    /\ pages[Len(pages)].rows < PAGE_LIMIT
    /\ pages[Len(pages)].rows >= 1

\* C4: every header line in the staging file has exactly NumFields columns; a
\* returned page whose header has another column count ends the run with
\* RuntimeError at once: it never reaches the write step, nothing of it is
\* written, and no database operation is attempted.
C4_HeaderColumns ==
    /\ \A i \in DOMAIN file.hdrs : file.hdrs[i] = NumFields
    /\ (chunk.present /\ HeaderCols(chunk) # NumFields)
          => (pc = "process" \/ (pc = "done" /\ outcome = "RuntimeError"))
    /\ outcome = "RuntimeError" =>
          /\ pc = "done"
          /\ chunk.present /\ HeaderCols(chunk) # NumFields
          /\ dbEvents = <<>>
          /\ file.data = SumRows(Front(pages))
          /\ Len(file.hdrs) = (IF Len(pages) > 1 THEN 1 ELSE 0)

C4_Witness ==
    /\ outcome = "RuntimeError"
    /\ Len(pages) >= 2
    /\ pages[Len(pages)].rows >= 1
    /\ file.data = PAGE_LIMIT

\* C5: in a fetch_page call whose failures are all network failures, the
\* waits so far are 2, 4, 8, 16, 32 (one after each failed attempt but the
\* 6th); after the 6th failure the exception leaves fetch_page, no page is
\* returned or staged for that call and no database operation is attempted;
\* a successful attempt k <= 6 returns the page of that attempt's response.
C5_SixAttemptsThenRaise ==
    /\ attempt <= MaxAttempts - 1
    /\ sleeps = SubSeq(ExpectedSleeps, 1, Len(sleeps))
    /\ (InFetch /\ fails.http = 0) =>
          /\ Len(sleeps) = attempt
          /\ fails.net = attempt + (IF pc = "except" THEN 1 ELSE 0)
    /\ (FetchRaised /\ fails.http = 0) =>
          /\ fails.net = MaxAttempts
          /\ sleeps = ExpectedSleeps
          /\ Len(pages) = Len(calls) - 1
          /\ file.data = SumRows(pages)
          /\ dbEvents = <<>>
    /\ (pc = "process" /\ fails.http = 0) =>
          /\ fails.net = attempt
          /\ Len(sleeps) = attempt
          /\ chunk = PageResult(r.body)
          /\ Len(pages) = Len(calls)

C5_Witness ==
    /\ FetchRaised
    /\ fails.http = 0
    /\ fails.net = MaxAttempts
    /\ Len(calls) >= 2
    /\ file.data >= PAGE_LIMIT

\* C6 (as stated): an error status from raise_for_status is not retried: once
\* one was raised in a fetch_page call no further request of that call is
\* issued and no backoff sleep follows; the exception is in flight or has
\* ended the run.
C6_HttpErrorNotRetried ==
    fails.http > 0 =>
        /\ pc = "except" \/ FetchRaised
        /\ Len(sleeps) = fails.net

\* C6 (amended): an error status from raise_for_status is handled exactly like
\* a network failure: every failed attempt but the 6th, of either kind, is
\* followed by one backoff sleep and a further attempt, and only the failure
\* of the 6th attempt, of either kind, leaves fetch_page and ends the run.
C6_HttpErrorRetried ==
    /\ (InFetch \/ pc = "process") =>
          /\ Len(sleeps) = attempt
          /\ TotalFails = attempt + (IF pc = "except" THEN 1 ELSE 0)
    /\ FetchRaised =>
          /\ TotalFails = MaxAttempts
          /\ attempt = MaxAttempts - 1
          /\ sleeps = ExpectedSleeps
          /\ dbEvents = <<>>
    /\ exc = "http" => pc = "except" \/ FetchRaised
    /\ exc = "http" => IsHttpError(r.status)

C6_Witness ==
    /\ pc = "request"
    /\ fails.http >= 1
    /\ fails.net = 0
    /\ Len(sleeps) = fails.http

\* C7: fetch_page returns "" exactly when the response body has no data row
\* (empty body, or a header line only, with or without a final newline).
C7_EmptyIffNoDataRows ==
    pc = "process" => (chunk = EmptyText <=> r.body.rows = 0)

\* C8 (as stated): exactly one commit is issued per run and only after the
\* bulk-copy has succeeded; if table creation or the bulk-copy raises, nothing
\* of the run has been committed.
C8_SingleCommitAfterCopy ==
    /\ \A i \in DOMAIN dbEvents :
          dbEvents[i].op = "commit" =>
             \E j \in 1 .. (i - 1) : dbEvents[j] = DbEvent("copy", TRUE)
    /\ Cardinality({i \in DOMAIN dbEvents : dbEvents[i].op = "commit"}) <= 1
    /\ (\E i \in DOMAIN dbEvents : ~dbEvents[i].ok) => db.committed = {}

\* C8 (amended): the database operations of a run are, in order: connect,
\* create table, commit (of the table creation, in ensure_table_exists), one
\* bulk-copy, commit; an operation that raises is the last one. The rows are
\* committed only by the second commit, after the bulk-copy succeeded. If
\* table creation raises nothing is committed; if the bulk-copy raises, the
\* table creation, and only it, has been committed.
C8_TwoCommits ==
    /\ Len(dbEvents) <= Len(DbOrder)
    /\ \A i \in DOMAIN dbEvents :
          /\ dbEvents[i].op = DbOrder[i]
          /\ ~dbEvents[i].ok => (i = Len(dbEvents) /\ pc = "done" /\ outcome = "DatabaseError")
    /\ "rows" \in db.committed <=>
          (Len(dbEvents) = Len(DbOrder) /\ dbEvents[Len(DbOrder)].ok)
    /\ "table" \in db.committed <=> (Len(dbEvents) >= 3 /\ dbEvents[3].ok)
    /\ outcome = "ok" <=> "rows" \in db.committed
    /\ (pc = "done" /\ outcome # "DatabaseError") => db.pending = {}
    /\ outcome = "DatabaseError" => db.pending = {}

C8_Witness ==
    /\ pc = "done"
    /\ Len(dbEvents) = 4
    /\ dbEvents[4] = DbEvent("copy", FALSE)
    /\ db.committed = {"table"}

\* C9: within one attempt at most two requests are issued; the second is
\* issued only after the first was answered with status 406, with Accept
\* text/plain and the same offset and limit; it consumes no attempt and
\* triggers no sleep; the response that is status-checked and returned is the
\* last one received.
C9_FallbackOn406 ==
    /\ Len(reqs) <= 2
    /\ \A i \in DOMAIN reqs :
          /\ reqs[i].offset = offset
          /\ reqs[i].limit = PAGE_LIMIT
          /\ reqs[i].accept = (IF i = 1 THEN TEXT_CSV ELSE TEXT_PLAIN)
    /\ Len(reqs) = 2 =>
          /\ ~reqs[1].resp.net
          /\ reqs[1].resp.status = NOT_ACCEPTABLE
    /\ pc = "fallback" <=>
          (InFetch /\ Len(reqs) = 1 /\ ~reqs[1].resp.net
             /\ reqs[1].resp.status = NOT_ACCEPTABLE)
    /\ pc \in {"fallback", "status"} =>
          /\ Len(sleeps) = attempt
          /\ TotalFails = attempt
    /\ pc \in {"status", "process"} =>
          /\ reqs # <<>>
          /\ r = reqs[Len(reqs)].resp
    /\ pc = "process" => chunk = PageResult(reqs[Len(reqs)].resp.body)

C9_Witness ==
    /\ pc = "process"
    /\ Len(reqs) = 2
    /\ attempt = 0
    /\ sleeps = <<>>
    /\ chunk.present
    /\ chunk = reqs[2].resp.body

\* C10: the k-th fetch_page call of a run uses offset (k-1) * PAGE_LIMIT, and
\* offset is PAGE_LIMIT times the number of pages that had at least one data
\* row written to the staging file and were then passed by the loop.
C10_OffsetByPageLimit ==
    /\ \A k \in DOMAIN calls : calls[k] = (k - 1) * PAGE_LIMIT
    /\ \A k \in DOMAIN calls : \A j \in DOMAIN calls : k < j => calls[k] < calls[j]
    /\ LET passed == IF pc = "advance" THEN Front(pages) ELSE Written
       IN  /\ offset = PAGE_LIMIT * Cardinality({j \in DOMAIN passed : passed[j].rows >= 1})
           /\ file.data >= SumRows(passed)
    /\ pc = "advance" => (pages[Len(pages)].rows >= 1 /\ file.data = SumRows(pages))

C10_Witness ==
    /\ pc = "request"
    /\ Len(calls) = 5
    /\ offset = 4 * PAGE_LIMIT
    /\ file.data >= 4 * PAGE_LIMIT
====
